---- MODULE Spec2Model ----
(***************************************************************************)
(* Model of launch.py: the SleekFinance one-command launcher.              *)
(*                                                                         *)
(* One launcher process runs main(): it checks the node_modules marker,    *)
(* runs `npm install` when the marker is absent, then stream_process       *)
(* spawns `npm run dev`, tees every line of the merged output to the       *)
(* console and to the append-mode log file, waits for the child and        *)
(* records its exit code.  The log file on disk (logFile) is kept apart    *)
(* from the text buffered in the open handle (logBuf): only flushed text   *)
(* survives an abrupt termination of the launcher.                         *)
(***************************************************************************)
EXTENDS Integers, Sequences, FiniteSets, TLC

\* ---------------------------------------------------------------- bounds
MaxRuns == 2        \* launcher invocations in one behaviour
MaxLines == 2       \* lines a child writes to its merged output

\* ------------------------------------------------------- input alphabets
ExitCodes == {-9, 0, 1, 2}

\* The i-th line a child prints; lines of one output are pairwise distinct,
\* so a lost, repeated, altered or reordered line shows.
LineText(i) == "line " \o ToString(i)

\* The merged outputs a child may produce: N lines for each N up to the bound.
Outputs == {[i \in 1..n |-> LineText(i)] : n \in 0..MaxLines}

\* Optional values: None is the empty sequence, Some(x) a one-element one.
None == <<>>
Some(x) == <<x>>

\* One record written to the console or to the log file.
Rec(kind, text, num) == [kind |-> kind, text |-> text, num |-> num]

VARIABLES
  pc,            \* position of the launcher inside main / stream_process
  status,        \* "running", "returned", "raised" or "killed"
  clock,         \* wall clock read by datetime.now(); one tick per launch
  marker,        \* ROOT/node_modules exists
  console,       \* what sys.stdout of this launcher process has received
  logFile,       \* durable content of logs/sleekfinance-dev.log
  logBuf,        \* text written to log_handle and not yet flushed
  logMark,       \* length of the log file when this launcher started
  pipe,          \* lines of process.stdout not yet read
  output,        \* the whole merged output of the main child
  line,          \* loop variable `line`
  depsPresent,   \* value of node_modules.exists() seen by this invocation
  installAlive,  \* the npm install child is running
  mainAlive,     \* the npm run dev child is running (not yet reaped)
  installSpawns, \* npm install children spawned by this invocation
  mainSpawns,    \* npm run dev children spawned by this invocation
  streamCalls,   \* calls of stream_process in this invocation
  installCode,   \* result.returncode of npm install
  returncode,    \* process.returncode
  exc,           \* exception raised in this invocation ("" when none)
  result,        \* value returned by main()
  completed      \* invocations so far whose stream_process returned

vars == <<pc, status, clock, marker, console, logFile, logBuf, logMark, pipe,
          output, line, depsPresent, installAlive, mainAlive, installSpawns,
          mainSpawns, streamCalls, installCode, returncode, exc, result,
          completed>>

\* ------------------------------------------------------------- constants
COMMAND == "npm run dev -- --host 0.0.0.0"

\* log(message): prints "[timestamp] message" on the console only.
log(message) == Append(console, Rec("msg", message, clock))

\* The three header writes of stream_process.
Header ==
  << Rec("sep", "", 0),
     Rec("launch", "", clock),
     Rec("command", COMMAND, 0) >>

Footer(code) == Rec("footer", "", code)

Init ==
  /\ pc = "start"
  /\ status = "running"
  /\ clock = 1
  /\ marker \in BOOLEAN
  /\ console = <<>>
  /\ logFile = <<>>
  /\ logBuf = <<>>
  /\ logMark = 0
  /\ pipe = <<>>
  /\ output = <<>>
  /\ line = ""
  /\ depsPresent = None
  /\ installAlive = FALSE
  /\ mainAlive = FALSE
  /\ installSpawns = 0
  /\ mainSpawns = 0
  /\ streamCalls = 0
  /\ installCode = None
  /\ returncode = None
  /\ exc = ""
  /\ result = None
  /\ completed = 0

Running(p) == status = "running" /\ pc = p

\* main, line 55
Start ==
  /\ Running("start")
  /\ console' = log("Starting SleekFinance launcher")
  /\ pc' = "ensure"
  /\ UNCHANGED <<status, clock, marker, logFile, logBuf, logMark, pipe, output,
                 line, depsPresent, installAlive, mainAlive, installSpawns,
                 mainSpawns, streamCalls, installCode, returncode, exc, result,
                 completed>>

\* Variant of EnsureSkip: the early return is missing, so the install runs
\* although the marker is present.
EnsureSkipNoReturn ==
  /\ Running("ensure")
  /\ marker
  /\ depsPresent' = Some(marker)
  /\ console' = log("Dependencies already installed. Skipping npm install.")
  /\ pc' = "install"
  /\ UNCHANGED <<status, clock, marker, logFile, logBuf, logMark, pipe,
                 output, line, installAlive, mainAlive, installSpawns,
                 mainSpawns, streamCalls, installCode, returncode, exc,
                 result, completed>>

\* ensure_dependencies, lines 21-24: marker present, return without install
EnsureSkip ==
  /\ Running("ensure")
  /\ marker
  /\ depsPresent' = Some(marker)
  /\ console' = log("Dependencies already installed. Skipping npm install.")
  /\ pc' = "stream"
  /\ UNCHANGED <<status, clock, marker, logFile, logBuf, logMark, pipe, output,
                 line, installAlive, mainAlive, installSpawns, mainSpawns,
                 streamCalls, installCode, returncode, exc, result, completed>>

\* ensure_dependencies, lines 21-25: marker absent, announce the install
EnsureInstall ==
  /\ Running("ensure")
  /\ ~marker
  /\ depsPresent' = Some(marker)
  /\ console' = log("Installing dependencies with npm install")
  /\ pc' = "install"
  /\ UNCHANGED <<status, clock, marker, logFile, logBuf, logMark, pipe, output,
                 line, installAlive, mainAlive, installSpawns, mainSpawns,
                 streamCalls, installCode, returncode, exc, result, completed>>

\* Variant of InstallSpawn: the child is started without waiting for it.
InstallSpawnDetached ==
  /\ Running("install")
  /\ installAlive' = TRUE
  /\ installSpawns' = installSpawns + 1
  /\ pc' = "stream"
  /\ UNCHANGED <<status, clock, marker, console, logFile, logBuf, logMark,
                 pipe, output, line, depsPresent, mainAlive, mainSpawns,
                 streamCalls, installCode, returncode, exc, result,
                 completed>>

\* ensure_dependencies, line 26: subprocess.run starts the npm install child
InstallSpawn ==
  /\ Running("install")
  /\ installAlive' = TRUE
  /\ installSpawns' = installSpawns + 1
  /\ pc' = "install_wait"
  /\ UNCHANGED <<status, clock, marker, console, logFile, logBuf, logMark,
                 pipe, output, line, depsPresent, mainAlive, mainSpawns,
                 streamCalls, installCode, returncode, exc, result,
                 completed>>

\* ensure_dependencies, line 26: npm cannot be started; the OSError leaves
\* ensure_dependencies and is caught by main's `except Exception`
InstallSpawnError ==
  /\ Running("install")
  /\ exc' = "FileNotFoundError"
  /\ pc' = "dep_failed"
  /\ UNCHANGED <<status, clock, marker, console, logFile, logBuf, logMark,
                 pipe, output, line, depsPresent, installAlive, mainAlive,
                 installSpawns, mainSpawns, streamCalls, installCode,
                 returncode, result, completed>>

\* Variant of InstallExit: the return code is not looked at.
InstallExitUnchecked ==
  /\ Running("install_wait")
  /\ \E code \in ExitCodes, created \in BOOLEAN :
       /\ installCode' = Some(code)
       /\ marker' = (marker \/ created)
  /\ installAlive' = FALSE
  /\ pc' = "stream"
  /\ UNCHANGED <<status, clock, console, logFile, logBuf, logMark, pipe,
                 output, line, depsPresent, mainAlive, installSpawns,
                 mainSpawns, streamCalls, returncode, exc, result, completed>>

\* ensure_dependencies, lines 26-28: subprocess.run returns once the child
\* has exited; a non-zero return code raises RuntimeError.  npm may or may
\* not have created node_modules by then.
InstallExit ==
  /\ Running("install_wait")
  /\ \E code \in ExitCodes, created \in BOOLEAN :
       /\ installCode' = Some(code)
       /\ marker' = (marker \/ created)
       /\ IF code # 0
            THEN exc' = "RuntimeError" /\ pc' = "dep_failed"
            ELSE exc' = exc /\ pc' = "stream"
  /\ installAlive' = FALSE
  /\ UNCHANGED <<status, clock, console, logFile, logBuf, logMark, pipe,
                 output, line, depsPresent, mainAlive, installSpawns,
                 mainSpawns, streamCalls, returncode, result, completed>>

\* main, lines 58-60: report the failure on the console and return 1
DepFailed ==
  /\ Running("dep_failed")
  /\ console' = log("Dependency installation failed")
  /\ result' = Some(1)
  /\ status' = "returned"
  /\ pc' = "end"
  /\ UNCHANGED <<clock, marker, logFile, logBuf, logMark, pipe, output, line,
                 depsPresent, installAlive, mainAlive, installSpawns,
                 mainSpawns, streamCalls, installCode, returncode, exc,
                 completed>>

\* Variant of OpenLog: the file is opened in write mode, which truncates it.
OpenLogTruncating ==
  /\ Running("stream")
  /\ streamCalls' = streamCalls + 1
  /\ logFile' = <<>>
  /\ logBuf' = <<>>
  /\ pc' = "header"
  /\ UNCHANGED <<status, clock, marker, console, logMark, pipe, output, line,
                 depsPresent, installAlive, mainAlive, installSpawns,
                 mainSpawns, installCode, returncode, exc, result, completed>>

\* main, lines 62-63, stream_process, lines 32-33: create logs/ and open the
\* log file in append mode; what is on disk stays.
OpenLog ==
  /\ Running("stream")
  /\ streamCalls' = streamCalls + 1
  /\ logFile' = logFile
  /\ logBuf' = <<>>
  /\ pc' = "header"
  /\ UNCHANGED <<status, clock, marker, console, logMark, pipe, output, line,
                 depsPresent, installAlive, mainAlive, installSpawns,
                 mainSpawns, installCode, returncode, exc, result, completed>>

\* Variant of WriteHeader: the separator line is not written.
WriteHeaderNoSeparator ==
  /\ Running("header")
  /\ logBuf' = logBuf \o Tail(Header)
  /\ pc' = "spawn"
  /\ UNCHANGED <<status, clock, marker, console, logFile, logMark, pipe,
                 output, line, depsPresent, installAlive, mainAlive,
                 installSpawns, mainSpawns, streamCalls, installCode,
                 returncode, exc, result, completed>>

\* stream_process, lines 34-36: separator, launch time and command line
WriteHeader ==
  /\ Running("header")
  /\ logBuf' = logBuf \o Header
  /\ pc' = "spawn"
  /\ UNCHANGED <<status, clock, marker, console, logFile, logMark, pipe,
                 output, line, depsPresent, installAlive, mainAlive,
                 installSpawns, mainSpawns, streamCalls, installCode,
                 returncode, exc, result, completed>>

\* stream_process, lines 37-43: Popen starts the child with stderr merged
\* into stdout
MainSpawn ==
  /\ Running("spawn")
  /\ \E out \in Outputs :
       /\ output' = out
       /\ pipe' = out
  /\ mainAlive' = TRUE
  /\ mainSpawns' = mainSpawns + 1
  /\ pc' = "read"
  /\ UNCHANGED <<status, clock, marker, console, logFile, logBuf, logMark,
                 line, depsPresent, installAlive, installSpawns, streamCalls,
                 installCode, returncode, exc, result, completed>>

\* Variant of MainSpawnError: the error is caught inside stream_process and
\* turned into exit code 1.
MainSpawnErrorSwallowed ==
  /\ Running("spawn")
  /\ exc' = "FileNotFoundError"
  /\ returncode' = Some(1)
  /\ logFile' = logFile \o logBuf
  /\ logBuf' = <<>>
  /\ pc' = "report"
  /\ UNCHANGED <<status, clock, marker, console, logMark, pipe, output, line,
                 depsPresent, installAlive, mainAlive, installSpawns,
                 mainSpawns, streamCalls, installCode, result, completed>>

\* stream_process, lines 37-43: Popen raises (executable not found).  The
\* with-block closes the handle, which flushes the header, and the exception
\* leaves stream_process and main (the call at line 63 is outside the try).
MainSpawnError ==
  /\ Running("spawn")
  /\ exc' = "FileNotFoundError"
  /\ logFile' = logFile \o logBuf
  /\ logBuf' = <<>>
  /\ status' = "raised"
  /\ UNCHANGED <<pc, clock, marker, console, logMark, pipe, output, line,
                 depsPresent, installAlive, mainAlive, installSpawns,
                 mainSpawns, streamCalls, installCode, returncode, result,
                 completed>>

\* stream_process, line 45: the for loop takes the next line of the stream
ReadLine ==
  /\ Running("read")
  /\ pipe # <<>>
  /\ line' = Head(pipe)
  /\ pipe' = Tail(pipe)
  /\ pc' = "console"
  /\ UNCHANGED <<status, clock, marker, console, logFile, logBuf, logMark,
                 output, depsPresent, installAlive, mainAlive, installSpawns,
                 mainSpawns, streamCalls, installCode, returncode, exc,
                 result, completed>>

\* stream_process, line 45: end of stream ends the loop
EndOfStream ==
  /\ Running("read")
  /\ pipe = <<>>
  /\ pc' = "wait"
  /\ UNCHANGED <<status, clock, marker, console, logFile, logBuf, logMark,
                 pipe, output, line, depsPresent, installAlive, mainAlive,
                 installSpawns, mainSpawns, streamCalls, installCode,
                 returncode, exc, result, completed>>

\* stream_process, line 46
ConsoleWrite ==
  /\ Running("console")
  /\ console' = Append(console, Rec("out", line, 0))
  /\ pc' = "logwrite"
  /\ UNCHANGED <<status, clock, marker, logFile, logBuf, logMark, pipe,
                 output, line, depsPresent, installAlive, mainAlive,
                 installSpawns, mainSpawns, streamCalls, installCode,
                 returncode, exc, result, completed>>

\* Variant of LogWrite: the line reaches the console only.
LogWriteSkipped ==
  /\ Running("logwrite")
  /\ logBuf' = logBuf
  /\ pc' = "flush"
  /\ UNCHANGED <<status, clock, marker, console, logFile, logMark, pipe,
                 output, line, depsPresent, installAlive, mainAlive,
                 installSpawns, mainSpawns, streamCalls, installCode,
                 returncode, exc, result, completed>>

\* stream_process, line 47
LogWrite ==
  /\ Running("logwrite")
  /\ logBuf' = Append(logBuf, Rec("out", line, 0))
  /\ pc' = "flush"
  /\ UNCHANGED <<status, clock, marker, console, logFile, logMark, pipe,
                 output, line, depsPresent, installAlive, mainAlive,
                 installSpawns, mainSpawns, streamCalls, installCode,
                 returncode, exc, result, completed>>

\* stream_process, line 48
LogFlush ==
  /\ Running("flush")
  /\ logFile' = logFile \o logBuf
  /\ logBuf' = <<>>
  /\ pc' = "read"
  /\ UNCHANGED <<status, clock, marker, console, logMark, pipe, output, line,
                 depsPresent, installAlive, mainAlive, installSpawns,
                 mainSpawns, streamCalls, installCode, returncode, exc,
                 result, completed>>

\* stream_process, line 49: reap the child and learn its exit code
Wait ==
  /\ Running("wait")
  /\ \E code \in ExitCodes : returncode' = Some(code)
  /\ mainAlive' = FALSE
  /\ pc' = "footer"
  /\ UNCHANGED <<status, clock, marker, console, logFile, logBuf, logMark,
                 pipe, output, line, depsPresent, installAlive,
                 installSpawns, mainSpawns, streamCalls, installCode, exc,
                 result, completed>>

\* stream_process, line 50
WriteFooter ==
  /\ Running("footer")
  /\ logBuf' = Append(logBuf, Footer(returncode[1]))
  /\ pc' = "close"
  /\ UNCHANGED <<status, clock, marker, console, logFile, logMark, pipe,
                 output, line, depsPresent, installAlive, mainAlive,
                 installSpawns, mainSpawns, streamCalls, installCode,
                 returncode, exc, result, completed>>

\* stream_process, line 51: return; leaving the with-block flushes and
\* closes the handle
CloseLog ==
  /\ Running("close")
  /\ logFile' = logFile \o logBuf
  /\ logBuf' = <<>>
  /\ completed' = completed + 1
  /\ pc' = "report"
  /\ UNCHANGED <<status, clock, marker, console, logMark, pipe, output, line,
                 depsPresent, installAlive, mainAlive, installSpawns,
                 mainSpawns, streamCalls, installCode, returncode, exc,
                 result>>

\* Variant of Report: main returns 0 or 1 instead of the child's code.
ReportNormalised ==
  /\ Running("report")
  /\ console' = IF returncode[1] = 0
                  THEN log("Development server exited cleanly.")
                  ELSE log("Development server exited with errors.")
  /\ result' = Some(IF returncode[1] = 0 THEN 0 ELSE 1)
  /\ status' = "returned"
  /\ pc' = "end"
  /\ UNCHANGED <<clock, marker, logFile, logBuf, logMark, pipe, output, line,
                 depsPresent, installAlive, mainAlive, installSpawns,
                 mainSpawns, streamCalls, installCode, returncode, exc,
                 completed>>

\* main, lines 64-71: report on the console and return the child's code
Report ==
  /\ Running("report")
  /\ console' = IF returncode[1] = 0
                  THEN log("Development server exited cleanly.")
                  ELSE log("Development server exited with errors.")
  /\ result' = returncode
  /\ status' = "returned"
  /\ pc' = "end"
  /\ UNCHANGED <<clock, marker, logFile, logBuf, logMark, pipe, output, line,
                 depsPresent, installAlive, mainAlive, installSpawns,
                 mainSpawns, streamCalls, installCode, returncode, exc,
                 completed>>

\* The handle opened at line 33 is buffered: the buffer may reach the disk
\* before the next explicit flush.
Spill ==
  /\ status = "running"
  /\ pc \in {"spawn", "read", "console", "logwrite", "flush", "wait",
             "footer", "close"}
  /\ logBuf # <<>>
  /\ logFile' = logFile \o logBuf
  /\ logBuf' = <<>>
  /\ UNCHANGED <<pc, status, clock, marker, console, logMark, pipe, output,
                 line, depsPresent, installAlive, mainAlive, installSpawns,
                 mainSpawns, streamCalls, installCode, returncode, exc,
                 result, completed>>

\* The launcher is terminated abruptly: text still in the handle's buffer
\* never reaches the disk.
Kill ==
  /\ status = "running"
  /\ status' = "killed"
  /\ logBuf' = <<>>
  /\ UNCHANGED <<pc, clock, marker, console, logFile, logMark, pipe, output,
                 line, depsPresent, installAlive, mainAlive, installSpawns,
                 mainSpawns, streamCalls, installCode, returncode, exc,
                 result, completed>>

\* The user runs the launcher again: a new process with a fresh console; the
\* file system (log file, node_modules) is what the previous run left.
Launch ==
  /\ status # "running"
  /\ clock < MaxRuns
  /\ clock' = clock + 1
  /\ pc' = "start"
  /\ status' = "running"
  /\ console' = <<>>
  /\ logBuf' = <<>>
  /\ logMark' = Len(logFile)
  /\ pipe' = <<>>
  /\ output' = <<>>
  /\ line' = ""
  /\ depsPresent' = None
  /\ installAlive' = FALSE
  /\ mainAlive' = FALSE
  /\ installSpawns' = 0
  /\ mainSpawns' = 0
  /\ streamCalls' = 0
  /\ installCode' = None
  /\ returncode' = None
  /\ exc' = ""
  /\ result' = None
  /\ UNCHANGED <<marker, logFile, completed>>

Next ==
  \/ Start
  \/ EnsureSkip
  \/ EnsureInstall
  \/ InstallSpawn
  \/ InstallSpawnError
  \/ InstallExit
  \/ DepFailed
  \/ OpenLog
  \/ WriteHeader
  \/ MainSpawn
  \/ MainSpawnError
  \/ ReadLine
  \/ EndOfStream
  \/ ConsoleWrite
  \/ LogWrite
  \/ LogFlush
  \/ Wait
  \/ WriteFooter
  \/ CloseLog
  \/ Report
  \/ Spill
  \/ Kill
  \/ Launch

Spec == Init /\ [][Next]_vars

\* ------------------------------------------------------ derived notions
IsPrefix(s, t) == Len(s) <= Len(t) /\ SubSeq(t, 1, Len(s)) = s

OfKind(seq, k) == SelectSeq(seq, LAMBDA r : r.kind = k)

Count(seq, k) == Len(OfKind(seq, k))

\* The child-output lines among the records of seq, in order.
OutLines(seq) == [i \in 1..Count(seq, "out") |-> OfKind(seq, "out")[i].text]

OutRecs(lines) == [i \in 1..Len(lines) |-> Rec("out", lines[i], 0)]

\* What this invocation has put on disk, and what it has handed to write().
Section == SubSeq(logFile, logMark + 1, Len(logFile))

Written == Section \o logBuf

\* seq starts with this invocation's header.
StartsWithHeader(seq) == Len(seq) >= 3 /\ SubSeq(seq, 1, 3) = Header

StreamReturned == streamCalls = 1 /\ pc \in {"report", "end"}

ReportMessages ==
  {"Development server exited cleanly.",
   "Development server exited with errors."}

Reported == \E i \in 1..Len(console) :
              console[i].kind = "msg" /\ console[i].text \in ReportMessages

\* ---------------------------------------------------------------- claims

\* C1: once stream_process has returned, the console has received exactly
\* the lines of the child's merged output, in order, and this invocation's
\* part of the log file is the header, then those same lines in the same
\* order, then the exit-code footer.
C1_TeeExact ==
  StreamReturned =>
    /\ OutLines(console) = output
    /\ Section = Header \o OutRecs(output) \o <<Footer(returncode[1])>>

C1_Witness ==
  /\ StreamReturned
  /\ Len(output) >= 2
  /\ output[1] # output[2]

\* C2: when npm install has exited with a non-zero code, the main command is
\* never spawned, stream_process is never called, and main returns 1.
C2_InstallFailureStops ==
  (installCode # None /\ installCode[1] # 0) =>
    /\ mainSpawns = 0
    /\ streamCalls = 0
    /\ pc \in {"dep_failed", "end"}
    /\ (status = "returned" => result = Some(1))

C2_Witness ==
  /\ installCode = Some(-9)
  /\ status = "returned"
  /\ result = Some(1)

\* C3: when installation succeeded or was skipped and main returns, its
\* return value is the exit code of the main child, whatever that code is,
\* and the footer of this invocation records the same value.
C3_ExitCodePropagates ==
  (status = "returned" /\ streamCalls = 1) =>
    /\ returncode # None
    /\ result = returncode
    /\ Count(Section, "footer") = 1
    /\ Section[Len(Section)] = Footer(result[1])

C3_Witness ==
  /\ status = "returned"
  /\ installCode = Some(0)
  /\ result = Some(-9)

\* C4: when node_modules exists at the check, no npm install child is
\* spawned and the launcher goes on to stream_process and the spawn of the
\* main command; an npm install child is spawned only when it was absent.
C4_MarkerSkipsInstall ==
  /\ depsPresent = Some(TRUE) =>
       /\ installSpawns = 0
       /\ installCode = None
       /\ (pc \in {"stream", "header", "spawn"} \/ mainSpawns = 1)
  /\ installSpawns > 0 => depsPresent = Some(FALSE)

C4_Witness ==
  /\ depsPresent = Some(TRUE)
  /\ mainSpawns = 1
  /\ installSpawns = 0

\* The log is a run of sections, each opened by a separator record.
SepIdx(lg) == {i \in 1..Len(lg) : lg[i].kind = "sep"}

SectionEnd(lg, i) ==
  IF \E j \in SepIdx(lg) : j > i
    THEN (CHOOSE j \in SepIdx(lg) : j > i /\ \A k \in SepIdx(lg) : k > i => j <= k) - 1
    ELSE Len(lg)

SectionAt(lg, i) == SubSeq(lg, i, SectionEnd(lg, i))

Framed(sec) ==
  /\ Len(sec) >= 4
  /\ sec[1].kind = "sep"
  /\ sec[2].kind = "launch"
  /\ sec[3].kind = "command"
  /\ sec[Len(sec)].kind = "footer"
  /\ \A i \in 4..(Len(sec) - 1) : sec[i].kind = "out"

\* When every run so far has completed, the log is exactly one framed
\* section per run, in run order.
FramedInRunOrder ==
  (completed = clock /\ status = "returned") =>
    /\ Cardinality(SepIdx(logFile)) = clock
    /\ logFile # <<>> => logFile[1].kind = "sep"
    /\ \A i \in SepIdx(logFile) :
         /\ Framed(SectionAt(logFile, i))
         /\ SectionAt(logFile, i)[2].num =
              Cardinality({j \in SepIdx(logFile) : j <= i})

\* C5: the log file is append-only: every step leaves the previous content
\* as a prefix of the new content, and consecutive completed runs leave one
\* header/footer-framed section each, in run order.
C5_AppendOnly ==
  /\ [][IsPrefix(logFile, logFile')]_vars
  /\ []FramedInRunOrder

C5_Witness ==
  /\ clock = 2
  /\ completed = 2
  /\ status = "returned"
  /\ logMark > 0
  /\ Len(logFile) > logMark

\* C6: if the launcher is terminated abruptly after the log file was
\* opened, every child-output line the console has received is already on
\* disk in the log file, in the same order.
C6_DurableNotBehindConsole ==
  (status = "killed" /\ streamCalls = 1) =>
    IsPrefix(OutLines(console), OutLines(Section))

\* C7: when the main command cannot be spawned, the error leaves
\* stream_process and main: main returns no exit code and reports neither a
\* clean exit nor an exit with errors.
C7_SpawnErrorPropagates ==
  (exc = "FileNotFoundError" /\ streamCalls = 1) =>
    /\ status = "raised"
    /\ result = None
    /\ returncode = None
    /\ mainSpawns = 0
    /\ ~Reported

C7_Witness ==
  /\ exc = "FileNotFoundError"
  /\ streamCalls = 1
  /\ status = "raised"

\* C8: every failed invocation (installation failure or non-zero exit of
\* the main process) has shown a message on the console and has left an
\* entry in the log file.
C8_FailureOnConsoleAndInLog ==
  (status = "returned" /\ result # Some(0)) =>
    /\ console[Len(console)].kind = "msg"
    /\ console[Len(console)].text \in
         {"Dependency installation failed",
          "Development server exited with errors."}
    /\ Section # <<>>

\* C9 as stated: every invocation that appended to the log file and ended,
\* in whatever way (a failure to spawn included), appended exactly one
\* header and exactly one exit-code footer.
C9_FramedWhateverTheEnd ==
  (status \in {"returned", "raised"} /\ Section # <<>>) =>
    /\ Count(Section, "sep") = 1
    /\ Count(Section, "launch") = 1
    /\ Count(Section, "command") = 1
    /\ Count(Section, "footer") = 1

\* C9 amended: an invocation whose stream_process returns appends exactly
\* one header and exactly one footer; the header is written before the
\* child is spawned and the footer after end-of-stream and the child's
\* termination; an invocation whose main command fails to spawn appends the
\* header only.
C9_FramedWhenReturned ==
  /\ StreamReturned =>
       /\ StartsWithHeader(Section)
       /\ Section[Len(Section)].kind = "footer"
       /\ Count(Section, "sep") = 1
       /\ Count(Section, "launch") = 1
       /\ Count(Section, "command") = 1
       /\ Count(Section, "footer") = 1
  /\ status = "raised" => Section = Header
  /\ (mainSpawns = 1 /\ status # "killed") => StartsWithHeader(Written)
  /\ Count(Written, "footer") > 0 =>
       /\ pipe = <<>>
       /\ ~mainAlive
       /\ returncode # None
       /\ OutLines(Written) = output

C9_Witness ==
  /\ status = "raised"
  /\ completed >= 1
  /\ Section = Header

\* C10: within one invocation npm install is spawned at most once and the
\* main command at most once, the main command only after npm install has
\* exited with code 0 or was skipped, and the two children never run at the
\* same time.
C10_SequencedNoRetry ==
  /\ installSpawns <= 1
  /\ mainSpawns <= 1
  /\ ~(installAlive /\ mainAlive)
  /\ mainSpawns = 1 =>
       /\ ~installAlive
       /\ \/ depsPresent = Some(TRUE) /\ installSpawns = 0
          \/ installSpawns = 1 /\ installCode = Some(0)

C10_Witness ==
  /\ installSpawns = 1
  /\ installCode = Some(0)
  /\ mainSpawns = 1
  /\ mainAlive
====
